---- MODULE Spec2Model ----
(***************************************************************************)
(* GeoJSONSerializer of geojson_tiles/serializers.py as a state machine.   *)
(*                                                                         *)
(* One serializer instance is modelled.  A caller holds a queryset and a   *)
(* set of keyword options and calls serialize(queryset, **options) on the  *)
(* instance, possibly again after the call has returned or raised.  The    *)
(* instance attributes (self.options, self.stream, self.feature_collection,*)
(* self._current, ...) are the variables; they survive from one call to    *)
(* the next exactly as attributes of a Python object do.                   *)
(*                                                                         *)
(* Python values are strings; Python dicts are functions whose domain is   *)
(* the set of keys, so that "key in d" is k \in DOMAIN d.                   *)
(* The model class has the local fields id (primary key), name, pop, geom  *)
(* (a GeometryField) and no relational field, so handle_fk_field and       *)
(* handle_m2m_field are never entered.                                     *)
(***************************************************************************)
EXTENDS Integers, Sequences, FiniteSets, TLC

\* Longest queryset the caller passes.
MaxRecords == 2

(***************************************************************************)
(* Python values                                                           *)
(***************************************************************************)
None == "None"
NoneObj == [py |-> "None"]
EmptyDict == [k \in {} |-> None]

GEOSPoint == "GEOSGeometry(POINT (1 2))"
PointText == "{type: Point, coordinates: [1, 2]}"
BadText == "{type: Point, coordinates: [1,"
PointDict == "dict(type=Point, coordinates=[1, 2])"
WkbBuffer == "buffer(0101000000)"

\* isinstance(value, GEOSGeometry)
IsGEOSGeometry(value) == value = GEOSPoint

\* django.utils.encoding.is_protected_type: None, numbers, dates
is_protected_type(value) == value \in {None, "1", "2", "42"}

\* Field.value_to_string(obj) == smart_unicode(value): text stays as it is,
\* anything else is rendered as text
value_to_string(value) ==
  IF value \in {"A", PointText, BadText} THEN value ELSE "u'" \o value \o "'"

\* Mutant of json_loads_ok: text that is no JSON is let through.
json_loads_lenient(text) == TRUE

\* json.loads: the parsed object, or ValueError for text that is no JSON
json_loads_ok(text) == text = PointText
json_loads(text) == IF text = PointText THEN PointDict ELSE None

\* GEOSGeometry.geojson
geojson(geom) == PointText

\* d[k] = v on a Python dict
SetItem(d, k, v) == (k :> v) @@ d

(***************************************************************************)
(* The model class: queryset.model._meta                                   *)
(***************************************************************************)
pk_name == "id"
FieldSrid == "4326"
local_fields ==
  << [name |-> "id",   attname |-> "id",   primary_key |-> TRUE,  serialize |-> TRUE, geometry |-> FALSE],
     [name |-> "name", attname |-> "name", primary_key |-> FALSE, serialize |-> TRUE, geometry |-> FALSE],
     [name |-> "pop",  attname |-> "pop",  primary_key |-> FALSE, serialize |-> TRUE, geometry |-> FALSE],
     [name |-> "geom", attname |-> "geom", primary_key |-> FALSE, serialize |-> TRUE, geometry |-> TRUE] >>

\* obj.pk
pk(obj) == obj[pk_name]

(***************************************************************************)
(* The caller's inputs                                                     *)
(***************************************************************************)
OptionNames ==
  {"properties", "geometry_field", "fields", "crs", "srid", "bbox",
   "primary_key", "geometryfield"}

\* Values of the options a caller leaves out (never read: get() falls back
\* to its default before looking at them).
Blank ==
  [properties |-> [dict |-> FALSE, items |-> <<>>], geometry_field |-> None,
   fields |-> {}, crs |-> TRUE, srid |-> None, bbox |-> <<>>,
   primary_key |-> None, geometryfield |-> None]

\* **options as a dict: the keys given and their values
Options(given) ==
  [keys |-> DOMAIN given,
   val |-> [k \in OptionNames |-> IF k \in DOMAIN given THEN given[k] ELSE Blank[k]]]

\* options.get(k, default)
Get(o, k, default) == IF k \in o.keys THEN o.val[k] ELSE default

\* options.pop(k, None)
Pop(o, k) == [o EXCEPT !.keys = @ \ {k}]

OutNames == {"population", "label"}
PropertyFields == {"name", "pop"}

\* A rename mapping, as the item sequence iteritems() yields (the order is
\* the dict's own, fixed for a given dict object).
DictChoices ==
  { [dict |-> TRUE, items |-> <<>>] }
  \cup { [dict |-> TRUE, items |-> << <<f, o>> >>] :
           f \in PropertyFields \cup {"nofield"}, o \in OutNames }
  \cup { [dict |-> TRUE, items |-> << <<fg[1], o>>, <<fg[2], p>> >>] :
           fg \in {x \in PropertyFields \X PropertyFields : x[1] # x[2]},
           o \in OutNames, p \in OutNames }

\* A plain list of field names
ListChoices == { [dict |-> FALSE, items |-> <<"name">>], [dict |-> FALSE, items |-> <<"name", "pop">>] }

PrimaryKeyCallable == "lambda r: r.name"

Choice(k, values) == {EmptyDict} \cup {(k :> v) : v \in values}

\* Configurations that select and rename fields
FieldConfigs ==
  { Options(p @@ g @@ f) :
      p \in Choice("properties", DictChoices \cup ListChoices),
      g \in Choice("geometry_field", {"geom", "geojson", "wkb", "nofield"}),
      f \in Choice("fields", {{"name", "geom"}}) }

\* Configurations of the document's members, the identifier and the sink
DocumentConfigs ==
  { Options(c @@ s @@ b @@ p @@ g) :
      c \in Choice("crs", {TRUE, FALSE}),
      s \in Choice("srid", {"3857"}),
      b \in Choice("bbox", {<< <<"0", "1", "2", "3">> >>}),
      p \in Choice("primary_key", {"pop", PrimaryKeyCallable}),
      g \in Choice("geometryfield", {"nofield"}) }

Configs == FieldConfigs \cup DocumentConfigs

\* The records of a queryset.  The attributes geojson and wkb exist on the
\* records only when the queryset was built to carry them, which a caller
\* does when it names them as geometry_field.
Objs(o) ==
  LET base == [id : {"1", "2"}, name : {"A"}, pop : {"42"}, geom : {GEOSPoint, None}]
      gf == Get(o, "geometry_field", None)
  IN  IF gf = "geojson" THEN {r @@ ("geojson" :> t) : r \in base, t \in {PointText, BadText}}
      ELSE IF gf = "wkb" THEN {r @@ ("wkb" :> WkbBuffer) : r \in base}
      ELSE base

QuerySets(o) == UNION { [1..n -> Objs(o)] : n \in 0..MaxRecords }

VARIABLES
  queryset,            \* the caller's records
  config,              \* the caller's keyword options
  pc,                  \* where serialize is: idle, loop, fields, close, returned, raised
  exc,                 \* the exception a raised call ended with
  i,                   \* records of the for loop already finished
  options,             \* self.options
  stream,              \* self.stream: the chunks written to the sink
  selected_fields,     \* self.selected_fields
  geometry_field,      \* self.geometry_field
  crs,                 \* self.crs
  feature_collection,  \* self.feature_collection
  _current,            \* self._current
  calls,               \* calls made so far (counted up to two)
  first,               \* how the first call ended
  started,             \* start_object calls of this serialize call
  appended             \* appends to features of this serialize call

vars == <<queryset, config, pc, exc, i, options, stream, selected_fields,
          geometry_field, crs, feature_collection, _current, calls, first,
          started, appended>>

NoOutcome == [pc |-> "idle", exc |-> None, stream |-> <<>>]

Init ==
  /\ config \in Configs
  /\ queryset \in QuerySets(config)
  /\ pc = "idle"
  /\ exc = None
  /\ i = 0
  /\ options = Options(EmptyDict)
  /\ stream = <<>>
  /\ selected_fields = [none |-> TRUE, names |-> {}]
  /\ geometry_field = None
  /\ crs = TRUE
  /\ feature_collection = EmptyDict
  /\ _current = NoneObj
  /\ calls = 0
  /\ first = NoOutcome
  /\ started = 0
  /\ appended = 0

(***************************************************************************)
(* start_serialization, get_crs, get_geometry_field                        *)
(***************************************************************************)
geometry_fields == SelectSeq(local_fields, LAMBDA f : f.geometry)

\* No name a caller passes here is an attribute of the queryset object, so
\* getattr(queryset, fieldname) raises; without a name the first geometry
\* field of the model gives the SRID.
get_geometry_field(qs, o) ==
  LET fieldname == Get(o, "geometryfield", None)
  IN  IF fieldname # None
      THEN [exc |-> "AttributeError", srid |-> None]
      ELSE [exc |-> None, srid |-> FieldSrid]

get_crs(qs, o, selfcrs) ==
  IF selfcrs = FALSE
  THEN [exc |-> None, value |-> NoneObj]
  ELSE LET given == Get(o, "srid", None)
           found == IF given = None THEN get_geometry_field(qs, o)
                    ELSE [exc |-> None, srid |-> given]
       IN  IF found.exc # None
           THEN [exc |-> found.exc, value |-> NoneObj]
           ELSE [exc |-> None,
                 value |-> [type |-> "link",
                            properties |->
                              [href |-> "http://spatialreference.org/ref/epsg/" \o found.srid \o "/",
                               type |-> "proj4"]]]

\* Mutant of NewFeatureCollection: the features of the call before are kept.
KeptFeatureCollection ==
  [type |-> "FeatureCollection",
   features |-> IF "features" \in DOMAIN feature_collection
                THEN feature_collection["features"] ELSE <<>>]

\* self.feature_collection = {"type": "FeatureCollection", "features": []}
NewFeatureCollection == [type |-> "FeatureCollection", features |-> <<>>]

\* bbox[0][1:]
BboxEntry(bbox) == Tail(bbox[1])

\* The attributes start_serialization leaves behind; when get_crs raises,
\* the assignments after it have not happened.
start_serialization(qs, o, selfcrs, cur) ==
  LET c == get_crs(qs, o, selfcrs)
      bbox == Get(o, "bbox", <<>>)
      withcrs == SetItem(NewFeatureCollection, "crs", c.value)
  IN  IF c.exc # None
      THEN [exc |-> c.exc, feature_collection |-> NewFeatureCollection,
            options |-> o, current |-> cur]
      ELSE [exc |-> None,
            feature_collection |->
              IF bbox # <<>> THEN SetItem(withcrs, "bbox", BboxEntry(bbox)) ELSE withcrs,
            options |-> Pop(o, "bbox"), current |-> NoneObj]

(***************************************************************************)
(* start_object, handle_field, end_object                                  *)
(***************************************************************************)
start_object(obj) == [type |-> "Feature", properties |-> EmptyDict, id |-> pk(obj)]

SetProperty(cur, name, value) ==
  [cur EXCEPT !["properties"] = SetItem(@, name, value)]

\* handle_field for a field of the model (not a string)
handle_field_object(cur, obj, field) ==
  LET value == obj[field.name]
  IN  IF IsGEOSGeometry(value) THEN SetItem(cur, "geometry", value)
      ELSE IF is_protected_type(value) THEN SetProperty(cur, field.name, value)
      ELSE SetProperty(cur, field.name, value_to_string(value))

\* handle_field for an attribute name (a string)
handle_field_name(cur, obj, field) ==
  IF field \notin DOMAIN obj
  THEN [exc |-> "AttributeError", current |-> cur]
  ELSE LET value == obj[field]
       IN  IF field = "geojson"
           THEN IF json_loads_ok(value)
                THEN [exc |-> None, current |-> SetItem(cur, "geometry", json_loads(value))]
                ELSE [exc |-> "ValueError", current |-> cur]
           ELSE IF IsGEOSGeometry(value)
           THEN [exc |-> None, current |-> SetItem(cur, "geometry", value)]
           ELSE [exc |-> None, current |-> SetProperty(cur, field, value)]

\* self.selected_fields is None or attname in self.selected_fields
Selected(sel, attname) == sel.none \/ attname \in sel.names

\* The loop over local_fields, from the k-th field on
RECURSIVE LocalFieldsFrom(_, _, _, _)
LocalFieldsFrom(cur, obj, sel, k) ==
  IF k > Len(local_fields) THEN cur
  ELSE LET field == local_fields[k]
           handled ==
             IF field.name = pk_name THEN cur
             ELSE IF (field.serialize \/ field.primary_key) /\ Selected(sel, field.attname)
             THEN handle_field_object(cur, obj, field)
             ELSE cur
       IN  LocalFieldsFrom(handled, obj, sel, k + 1)

\* The body of the for loop between start_object and end_object
HandleFields(cur, obj, sel, gf) ==
  LET after == LocalFieldsFrom(cur, obj, sel, 1)
  IN  IF gf # None /\ gf # ""
      THEN handle_field_name(after, obj, gf)
      ELSE [exc |-> None, current |-> after]

\* Mutant of Renamed: the property keeps the field's name.
RenamedUnderFieldName(properties, field_name, property_name, source) ==
  SetItem(properties, field_name, source[field_name])

\* properties[property_name] = self._current['properties'][field_name]
Renamed(properties, field_name, property_name, source) ==
  SetItem(properties, property_name, source[field_name])

\* The loop over a rename mapping's items, from the k-th item on
RECURSIVE RenameFrom(_, _, _, _)
RenameFrom(properties, items, source, k) ==
  IF k > Len(items) THEN [exc |-> None, properties |-> properties]
  ELSE LET field_name == items[k][1]
           property_name == items[k][2]
       IN  IF field_name \notin DOMAIN source
           THEN [exc |-> "KeyError", properties |-> properties]
           ELSE RenameFrom(Renamed(properties, field_name, property_name, source),
                           items, source, k + 1)

\* The properties end_object leaves on the feature.  A list has no
\* iteritems(), so the list branch raises before it reads anything.
FilterProperties(cur, o) ==
  IF "properties" \in o.keys
  THEN IF o.val["properties"].dict
       THEN RenameFrom(EmptyDict, o.val["properties"].items, cur["properties"], 1)
       ELSE [exc |-> "AttributeError", properties |-> EmptyDict]
  ELSE [exc |-> None, properties |-> cur["properties"]]

\* Mutant of AppendFeature: the feature is put in front.
PrependFeature(features, cur) == <<cur>> \o features

\* self.feature_collection["features"].append(self._current)
AppendFeature(features, cur) == Append(features, cur)

end_object(fc, cur, o) ==
  LET filtered == FilterProperties(cur, o)
      closed == [cur EXCEPT !["properties"] = filtered.properties]
  IN  IF filtered.exc # None
      THEN [exc |-> filtered.exc, feature_collection |-> fc, current |-> cur]
      ELSE [exc |-> None,
            feature_collection |-> [fc EXCEPT !["features"] = AppendFeature(@, closed)],
            current |-> NoneObj]

(***************************************************************************)
(* end_serialization: DjangoGeoJSONEncoder and json.dump                   *)
(***************************************************************************)
\* Values the JSON encoder writes without asking default()
IsJsonNative(value) == value # WkbBuffer /\ ~IsGEOSGeometry(value)

\* DjangoGeoJSONEncoder.default: a geometry becomes its GeoJSON object,
\* anything else is left to the base class, which raises TypeError
default_ok(value) == IsGEOSGeometry(value)
default(value) == json_loads(geojson(value))

Encodable(value) == IsJsonNative(value) \/ default_ok(value)

RECURSIVE EncodeValue(_)
EncodeValue(value) ==
  IF value = None THEN "null"
  ELSE IF value \in {"0", "1", "2", "3", "42"} THEN value
  ELSE IF value = PointDict THEN PointText
  ELSE IF ~IsJsonNative(value) THEN EncodeValue(default(value))
  ELSE "'" \o value \o "'"

EncodeDict(d) == [k \in DOMAIN d |-> EncodeValue(d[k])]

FeatureEncodable(f) ==
  /\ Encodable(f["id"])
  /\ \A k \in DOMAIN f["properties"] : Encodable(f["properties"][k])
  /\ "geometry" \in DOMAIN f => Encodable(f["geometry"])

EncodeFeature(f) ==
  [k \in DOMAIN f |->
     IF k = "properties" THEN EncodeDict(f[k]) ELSE EncodeValue(f[k])]

\* The members of the collection other than its features
EncodeMembers(fc) ==
  [k \in DOMAIN fc \ {"features"} |->
     IF k = "crs" THEN (IF fc[k] = NoneObj THEN "null" ELSE fc[k])
     ELSE IF k = "bbox" THEN [n \in DOMAIN fc[k] |-> EncodeValue(fc[k][n])]
     ELSE EncodeValue(fc[k])]

\* The chunks iterencode yields for the whole collection (members are
\* written in one fixed order; the order of a JSON object's members is
\* immaterial here).
Chunks(fc) ==
  << [tok |-> "{", json |-> EncodeMembers(fc)] >>
  \o [k \in 1..Len(fc["features"]) |->
        [tok |-> "feature", json |-> EncodeFeature(fc["features"][k])]]
  \o << [tok |-> "}", json |-> EmptyDict] >>

\* json.dump(obj, fp, cls=DjangoGeoJSONEncoder, **kwargs): the encoder is
\* built first (an option it does not know is a TypeError), then every
\* chunk is written to fp as soon as iterencode yields it, so the chunks
\* before an unencodable value are on the sink when TypeError is raised.
json_dump(fc, kwargs) ==
  LET bad == {k \in 1..Len(fc["features"]) : ~FeatureEncodable(fc["features"][k])}
      m == CHOOSE k \in bad : \A j \in bad : k <= j
  IN  IF kwargs # {} THEN [exc |-> "TypeError", written |-> <<>>]
      ELSE IF bad = {} THEN [exc |-> None, written |-> Chunks(fc)]
      ELSE [exc |-> "TypeError",
            written |-> SubSeq(Chunks(fc), 1, m) \o << [tok |-> "{...", json |-> EmptyDict] >>]

EndPops(o) ==
  [o EXCEPT !.keys = @ \ {"stream", "fields", "geometry_field", "properties",
                           "use_natural_keys", "crs", "srid"}]

end_serialization(fc, o) ==
  LET popped == EndPops(o)
      dumped == json_dump(fc, popped.keys)
  IN  [exc |-> dumped.exc, options |-> popped, written |-> dumped.written]

(***************************************************************************)
(* serialize, one step at a time                                           *)
(***************************************************************************)
Outcome(p, e, s) == [pc |-> p, exc |-> e, stream |-> s]

\* The first call's outcome is kept, to compare a later call with it.
Finish(callno, p, e, s) ==
  /\ pc' = p
  /\ exc' = e
  /\ first' = IF callno = 1 THEN Outcome(p, e, s) ELSE first

\* serialize(queryset, **options) up to the for loop (lines 184-197)
Serialize ==
  /\ pc \in {"idle", "returned", "raised"}
  /\ LET o == config
         selfcrs == Get(o, "crs", TRUE)
         s == start_serialization(queryset, o, selfcrs, _current)
         callno == IF calls < 2 THEN calls + 1 ELSE calls
     IN  /\ calls' = callno
         /\ stream' = <<>>
         /\ selected_fields' =
              IF "fields" \in o.keys THEN [none |-> FALSE, names |-> o.val["fields"]]
              ELSE [none |-> TRUE, names |-> {}]
         /\ geometry_field' = Get(o, "geometry_field", None)
         /\ crs' = selfcrs
         /\ options' = s.options
         /\ feature_collection' = s.feature_collection
         /\ _current' = s.current
         /\ i' = 0
         /\ started' = 0
         /\ appended' = 0
         /\ IF s.exc # None
            THEN Finish(callno, "raised", s.exc, <<>>)
            ELSE pc' = "loop" /\ exc' = None /\ first' = first
  /\ UNCHANGED <<queryset, config>>

\* self.start_object(obj) for the next record
StartObject ==
  /\ pc = "loop"
  /\ i < Len(queryset)
  /\ _current' = start_object(queryset[i + 1])
  /\ started' = started + 1
  /\ pc' = "fields"
  /\ UNCHANGED <<queryset, config, exc, i, options, stream, selected_fields,
                 geometry_field, crs, feature_collection, calls, first, appended>>

\* the field loops and the geometry_field of the record (lines 202-221)
FieldPass ==
  /\ pc = "fields"
  /\ LET h == HandleFields(_current, queryset[i + 1], selected_fields, geometry_field)
     IN  /\ _current' = h.current
         /\ IF h.exc # None
            THEN Finish(calls, "raised", h.exc, stream)
            ELSE pc' = "close" /\ UNCHANGED <<exc, first>>
  /\ UNCHANGED <<queryset, config, i, options, stream, selected_fields,
                 geometry_field, crs, feature_collection, calls, started, appended>>

\* self.end_object(obj)
EndObject ==
  /\ pc = "close"
  /\ LET e == end_object(feature_collection, _current, options)
     IN  /\ feature_collection' = e.feature_collection
         /\ _current' = e.current
         /\ IF e.exc # None
            THEN Finish(calls, "raised", e.exc, stream) /\ UNCHANGED <<i, appended>>
            ELSE /\ pc' = "loop"
                 /\ i' = i + 1
                 /\ appended' = appended + 1
                 /\ UNCHANGED <<exc, first>>
  /\ UNCHANGED <<queryset, config, options, stream, selected_fields,
                 geometry_field, crs, calls, started>>

\* self.end_serialization() and return self.getvalue()
EndSerialization ==
  /\ pc = "loop"
  /\ i = Len(queryset)
  /\ LET e == end_serialization(feature_collection, options)
     IN  /\ options' = e.options
         /\ stream' = stream \o e.written
         /\ Finish(calls, IF e.exc # None THEN "raised" ELSE "returned", e.exc,
                   stream \o e.written)
  /\ UNCHANGED <<queryset, config, i, selected_fields, geometry_field, crs,
                 feature_collection, _current, calls, started, appended>>

Next == Serialize \/ StartObject \/ FieldPass \/ EndObject \/ EndSerialization

Spec == Init /\ [][Next]_vars

(***************************************************************************)
(* Properties                                                              *)
(***************************************************************************)
features == IF "features" \in DOMAIN feature_collection
            THEN feature_collection["features"] ELSE <<>>

Entered == pc # "idle"

\* The feature the per-record steps make of one record under the caller's
\* configuration, when none of them raises.
FeatureOf(obj) ==
  LET opened == start_object(obj)
      handled == HandleFields(opened, obj, selected_fields, geometry_field).current
  IN  [handled EXCEPT !["properties"] = FilterProperties(handled, config).properties]

\* C1: the collection holds one feature per finished record, the k-th
\* feature built from the k-th record, every start_object of a finished
\* record matched by exactly one append; a call that returns has finished
\* every record and has written the features to the sink in that order.
C1_FeaturesFollowRecords ==
  Entered =>
    /\ Len(features) = i
    /\ appended = i
    /\ started \in {i, i + 1}
    /\ pc \in {"fields", "close"} => started = i + 1
    /\ pc \in {"loop", "returned"} => started = i
    /\ i <= Len(queryset)
    /\ \A k \in 1..Len(features) :
         /\ features[k]["id"] = pk(queryset[k])
         /\ features[k] = FeatureOf(queryset[k])
    /\ pc = "returned" =>
         /\ i = Len(queryset)
         /\ started = appended
         /\ Len(stream) = Len(queryset) + 2
         /\ \A k \in 1..Len(queryset) :
              stream[k + 1] = [tok |-> "feature", json |-> EncodeFeature(FeatureOf(queryset[k]))]

C1_Witness ==
  /\ pc = "returned"
  /\ Len(queryset) >= 2
  /\ queryset[1] # queryset[2]
  /\ Len(features) = Len(queryset)

\* The designated geometry of some record is text that cannot be parsed.
UnparseableGeometry ==
  /\ Get(config, "geometry_field", None) = "geojson"
  /\ \E k \in 1..Len(queryset) : queryset[k]["geojson"] = BadText

C3_AllOrNothing ==
  pc = "raised" => (stream = <<>> \/ stream = Chunks(feature_collection))

\* The identifier the configuration asks for.
ResolveId(obj) ==
  LET pkopt == Get(config, "primary_key", None)
  IN  IF pkopt = PrimaryKeyCallable THEN obj["name"]
      ELSE IF pkopt # None THEN obj[pkopt]
      ELSE pk(obj)

\* C4: every feature's id is the configured callable's result, else the
\* configured field's value, else the record's primary key.
C4_IdByPriority ==
  \A k \in 1..Len(features) : features[k]["id"] = ResolveId(queryset[k])

CrsOf(srid) ==
  [type |-> "link",
   properties |-> [href |-> "http://spatialreference.org/ref/epsg/" \o srid \o "/",
                   type |-> "proj4"]]

\* C5: with crs=False the collection handed to the encoder has no crs key;
\* with crs enabled it has one, whose href is built from the SRID.
C5_CrsKeyAbsentWhenDisabled ==
  pc \in {"loop", "fields", "close", "returned"} =>
    IF Get(config, "crs", TRUE) = FALSE
    THEN "crs" \notin DOMAIN feature_collection
    ELSE /\ "crs" \in DOMAIN feature_collection
         /\ feature_collection["crs"] = CrsOf(Get(config, "srid", FieldSrid))

RenameItems == config.val["properties"].items
IsRename == "properties" \in config.keys /\ config.val["properties"].dict
IsList == "properties" \in config.keys /\ ~config.val["properties"].dict
OutputNames == {RenameItems[n][2] : n \in DOMAIN RenameItems}

\* The properties of the k-th feature are exactly the mapped names, one
\* per mapping key, each with the value of the record's field.
RenamedExactly(k) ==
  LET properties == features[k]["properties"]
  IN  /\ DOMAIN properties = OutputNames
      /\ Cardinality(DOMAIN properties) = Len(RenameItems)
      /\ \A n \in DOMAIN RenameItems :
           properties[RenameItems[n][2]] = queryset[k][RenameItems[n][1]]

\* C6 as stated: for every rename mapping, every feature's properties are
\* exactly the mapped output names, one per mapping key.
C6_RenameExact ==
  IsRename => \A k \in 1..Len(features) : RenamedExactly(k)

\* C6 amended: for every rename mapping whose output names are pairwise
\* distinct, every feature's properties are exactly the mapped output
\* names, one per mapping key, each with the value of the record's field of
\* the original name, and no other field.
C6_RenameExactDistinctNames ==
  (IsRename /\ Cardinality(OutputNames) = Len(RenameItems)) =>
    \A k \in 1..Len(features) : RenamedExactly(k)

C6_Witness ==
  /\ pc = "returned"
  /\ IsRename
  /\ Len(RenameItems) = 2
  /\ Cardinality(OutputNames) = 2
  /\ Len(features) >= 1
  /\ features[1]["properties"] = ("population" :> "42") @@ ("label" :> "A")

\* C7: with a plain list of field names (and nothing else configured) the
\* call does not fail, and every feature's properties are exactly the
\* listed fields under their own names.
C7_ListFilterSucceeds ==
  (IsList /\ config.keys = {"properties"}) =>
    /\ pc # "raised"
    /\ \A k \in 1..Len(features) :
         /\ DOMAIN features[k]["properties"] = {RenameItems[n] : n \in DOMAIN RenameItems}
         /\ \A f \in DOMAIN features[k]["properties"] :
              features[k]["properties"][f] = queryset[k][f]

\* The configuration names a field the records do not have.
MissingFieldRequested ==
  \/ Get(config, "geometry_field", None) = "nofield"
  \/ IsRename /\ \E n \in DOMAIN RenameItems : RenameItems[n][1] = "nofield"

\* C8: a call whose configuration names a missing field never returns, and
\* no start_object has run in it.
C8_ConfigErrorBeforeRecords ==
  (Entered /\ MissingFieldRequested) => (pc # "returned" /\ started = 0)

\* C9: a second call on the same instance with the same records and
\* configuration starts from an empty feature list, no current feature,
\* an empty sink and the caller's options, and ends as the first call
\* ended, with the same content on its fresh sink.
C9_SecondCallSameOutput ==
  calls = 2 =>
    /\ (pc = "loop" /\ i = 0) =>
         /\ features = <<>>
         /\ _current = NoneObj
         /\ stream = <<>>
         /\ options = Pop(config, "bbox")
         /\ "bbox" \in DOMAIN feature_collection <=> "bbox" \in config.keys
    /\ pc \in {"returned", "raised"} => Outcome(pc, exc, stream) = first

C9_Witness ==
  /\ calls = 2
  /\ pc = "returned"
  /\ Len(queryset) >= 1
  /\ first.pc = "returned"
  /\ Len(first.stream) = Len(queryset) + 2

\* C10: with nothing configured, every feature's properties hold exactly
\* the fields that are neither the geometry nor the primary key, under
\* their own names, also for a record whose geometry is null; the geometry
\* is only in the geometry slot.
C10_UnsetPropertiesExact ==
  config.keys = {} =>
    \A k \in 1..Len(features) :
      /\ DOMAIN features[k]["properties"] = {"name", "pop"}
      /\ \A f \in {"name", "pop"} : features[k]["properties"][f] = queryset[k][f]
      /\ "geometry" \in DOMAIN features[k] => features[k]["geometry"] = queryset[k]["geom"]
====
